---- MODULE Spec2Model ----
(***************************************************************************)
(* A model of the uecs World (src/src/world.ts): the live-entity set, the  *)
(* entity sequence counter, the per-type component tables, the view cache  *)
(* and the View.each iteration with its callback.                          *)
(***************************************************************************)
EXTENDS Integers, Sequences, FiniteSets, TLC

\* Entity identifiers used by the model are 0..MaxEntity.
MaxEntity == 1
\* create(...components) and insert(e, ...components) take at most MaxArgs components.
MaxArgs == 2

\* The callbacks of one each() call make at most MaxCallbackOps mutating calls.
MaxCallbackOps == 1
MaxDepth == 2
MaxVisits == 3

Ids == 0..MaxEntity

\* The callback of the test "view doesn't loop infinitely" returns false on
\* the first entity greater than LoopLimit.
LoopLimit == 5

\* The identifiers of the entities that calls made by user code and by that
\* callback can create.
AllIds == 0..(MaxEntity + LoopLimit + 1)

\* JavaScript's undefined: an absent table entry, an absent return value.
Undefined == "undefined"

\* The component classes of the test-suite (class A, class B): their names.
TypeNames == {"A", "B"}

\* Component instances handed to the World: two instances of class A and one
\* of class B; a1 and b1 carry a free() hook, a2 does not.
Instances == {"a1", "a2", "b1"}

\* Further components: an instance of a class named AB, whose name is the
\* concatenation of the names of A and B, the class A itself, passed where
\* an instance is expected (world.create(A)), and an instance of a class
\* named AA; and an instance of a class Label that carries its own `name`
\* field (class Label { constructor(public name) {} }), whose value is "A".
OtherInstances == {"ab1", "classA", "aa1", "label1"}

\* The names given to Tag.for: the strings "Test" and "NotTest", an object
\* TagTest whose toString() returns "Test", and two strings that name
\* properties every plain object inherits.
TagNameArgs == {"Test", "NotTest", "TagTest", "constructor", "__proto__"}

\* name.toString()
NameString(n) == IF n = "TagTest" THEN "Test" ELSE n

\* The class Tag.for creates for the string n: its `name` is "T$" + n.
NewTag(n) == "T$" \o n

\* Reading a property of a plain object ({}) that is not an own property:
\* the property of Object.prototype, if it has one of that name.
InheritedProperty(n) ==
    CASE n = "constructor" -> "Object"
      [] n = "__proto__" -> "Object.prototype"
      [] OTHER -> Undefined

\* The values Tag.for can return.
TagTypes ==
    {NewTag(NameString(n)) : n \in TagNameArgs} \cup {"Object", "Object.prototype"}

\* component.constructor.name
ConstructorName(c) ==
    CASE c \in {"a1", "a2"} -> "A"
      [] c = "b1" -> "B"
      [] c = "ab1" -> "AB"
      [] c = "aa1" -> "AA"
      [] c = "label1" -> "Label"
      [] c = "Object.prototype" -> "Object"
      [] OTHER -> "Function"

\* component.name: the `name` property of the component. Classes have one
\* (the class A, the classes made by Tag.for, the function Object), and so
\* has an instance with a field of that name; the other instances and
\* Object.prototype have none.
OwnName(c) ==
    CASE c = "classA" -> "A"
      [] c = "label1" -> "A"
      [] c \in {NewTag(NameString(n)) : n \in TagNameArgs} -> c
      [] c = "Object" -> "Object"
      [] OTHER -> Undefined

\* component.free !== undefined
HasFree(c) == c \in {"a1", "b1"}

\* Sequences over S of length at most n.
SeqUpTo(S, n) == UNION {[1..k -> S] : k \in 0..n}

Range(s) == {s[i] : i \in 1..Len(s)}

VARIABLES
    entitySequence, \* World.entitySequence
    entities,       \* World.entities: a Set<Entity>, kept in insertion order
    componentKeys,  \* the own keys of World.components, in insertion order
    components,     \* World.components[type][entity], Undefined when absent
    views,          \* World.views: the ids of the cached views
    stack,          \* the each() calls in progress, innermost last
    lastOp,         \* the operation that completed last, with its outcome
    tags            \* Tag.cache, and the tags user code has got from Tag.for

vars ==
    <<entitySequence, entities, componentKeys, components, views, stack, lastOp,
      tags>>

world == <<entitySequence, entities, componentKeys, components, views>>

\* The Null entity.
Null == -1

\* The outcome of an operation: its name, its arguments (entity, type, comps,
\* types), the value returned (entity for create and insert, ret otherwise),
\* whether it threw, the components whose free() it invoked, in order, for
\* emplace: the component the slot held before the call, and for each(): the
\* entities passed to the callback, in order, whether the World was mutated
\* during the call and by how many calls; for a clear() whose hooks call the
\* World: the entities it passed to destroy (visited) and the live set at its
\* start; for view(...types).each(): the component arguments of each
\* invocation of the callback (args).
NoOp ==
    [op |-> "none", entity |-> Null, type |-> Undefined, comps |-> <<>>,
     types |-> <<>>, ret |-> Undefined, threw |-> FALSE, freed |-> <<>>,
     prev |-> Undefined, visited |-> <<>>, mutated |-> FALSE, calls |-> 0,
     start |-> <<>>, args |-> <<>>]

----------------------------------------------------------------------------
\* Set<Entity>: add appends unless present, delete removes, values() enumerates
\* in insertion order.
SetHas(s, e) == e \in Range(s)

\* An add that appends whether or not the member is present.
SetAddAgain(s, e) == Append(s, e)

SetAdd(s, e) == IF SetHas(s, e) THEN s ELSE Append(s, e)

SetDelete(s, e) == SelectSeq(s, LAMBDA x : x # e)

\* exists(entity)
Exists(e) == SetHas(entities, e)

\* size()
Size == Len(entities)

\* this.components[type] === undefined
NoTable(keys, type) == type \notin Range(keys)

\* The type identifier emplace stores a component under:
\* component.name ?? component.constructor.name
TypeOf(c) == IF OwnName(c) # Undefined THEN OwnName(c) ELSE ConstructorName(c)

\* Every type identifier a table can be keyed by.
AllKeys ==
    TypeNames \cup {TypeOf(c) : c \in Instances \cup OtherInstances \cup TagTypes}

\* get(entity, component): the value returned, given the tables.
GetIn(keys, comps, e, type) ==
    IF NoTable(keys, type) THEN Undefined ELSE comps[type][e]

GetValue(e, type) == GetIn(componentKeys, components, e, type)

\* has(entity, component): the value returned, given the tables.
HasIn(keys, comps, e, type) ==
    ~NoTable(keys, type) /\ comps[type][e] # Undefined

HasValue(e, type) == HasIn(componentKeys, components, e, type)

\* emplace's stores: the table is materialized when missing, then the
\* component is written over whatever the slot held.
StoreKeys(keys, c) ==
    IF NoTable(keys, TypeOf(c)) THEN Append(keys, TypeOf(c)) ELSE keys

StoreComp(comps, e, c) == [comps EXCEPT ![TypeOf(c)][e] = c]

\* A loop that emplaces the components from the last argument to the first.
RECURSIVE EmplaceEachReversed(_, _, _, _)
EmplaceEachReversed(keys, comps, e, cs) ==
    IF cs = <<>> THEN [keys |-> keys, comps |-> comps]
    ELSE EmplaceEachReversed(StoreKeys(keys, cs[Len(cs)]),
                             StoreComp(comps, e, cs[Len(cs)]),
                             e, SubSeq(cs, 1, Len(cs) - 1))

\* The loop of create and insert: emplace each component in argument order.
RECURSIVE EmplaceEach(_, _, _, _)
EmplaceEach(keys, comps, e, cs) ==
    IF cs = <<>> THEN [keys |-> keys, comps |-> comps]
    ELSE EmplaceEach(StoreKeys(keys, Head(cs)), StoreComp(comps, e, Head(cs)),
                     e, Tail(cs))

\* A destroy whose loop over the tables ends at the first hook it invokes.
RECURSIVE FreedByFirst(_, _, _)
FreedByFirst(keys, comps, e) ==
    IF keys = <<>> THEN <<>>
    ELSE LET c == comps[Head(keys)][e]
         IN  IF c # Undefined /\ HasFree(c) THEN <<c>>
             ELSE FreedByFirst(Tail(keys), comps, e)

\* destroy's loop over the tables, in key order: the components of `e` whose
\* free() is invoked.
RECURSIVE FreedBy(_, _, _)
FreedBy(keys, comps, e) ==
    IF keys = <<>> THEN <<>>
    ELSE LET c == comps[Head(keys)][e]
         IN  (IF c # Undefined /\ HasFree(c) THEN <<c>> ELSE <<>>)
                 \o FreedBy(Tail(keys), comps, e)

\* A destroy that empties every table.
EraseAll(keys, comps, e) ==
    [t \in DOMAIN comps |->
        IF t \in Range(keys) THEN [f \in DOMAIN comps[t] |-> Undefined] ELSE comps[t]]

\* A destroy that leaves the entries of `e` in the tables.
EraseNone(keys, comps, e) == comps

\* destroy's loop over the tables: every table's entry of `e` is deleted.
Erase(keys, comps, e) ==
    [t \in DOMAIN comps |->
        IF t \in Range(keys) THEN [comps[t] EXCEPT ![e] = Undefined] ELSE comps[t]]

\* destroy(entity) on the live set, the tables and the log of invoked hooks.
DestroyIn(w, keys, e) ==
    [ents |-> SetDelete(w.ents, e),
     comps |-> Erase(keys, w.comps, e),
     freed |-> w.freed \o FreedBy(keys, w.comps, e)]

\* A clear that walks the live set by index: after destroying an entry it
\* steps over the entry that took its place.
RECURSIVE ClearLoopSkips(_, _, _)
ClearLoopSkips(w, keys, n) ==
    IF n >= Len(w.ents) THEN w
    ELSE ClearLoopSkips(DestroyIn(w, keys, w.ents[n + 1]), keys, n + 1)

\* clear's loop over entities.values(): the Set iterator stands behind `n`
\* entries; destroying the next entry deletes it, so the iterator still
\* stands behind `n` entries and the following entry comes next.
RECURSIVE ClearLoop(_, _, _)
ClearLoop(w, keys, n) ==
    IF n >= Len(w.ents) THEN w
    ELSE ClearLoop(DestroyIn(w, keys, w.ents[n + 1]), keys, n)

----------------------------------------------------------------------------
\* A call in progress. For each(): the View (id), the number of entries
\* behind the Set iterator (cursor), pc "loop" or "callback", the entities
\* passed to the callback (visited), the number of mutating calls made by user
\* code during the call (calls), and whether the callback returned false
\* (stop), and the callback given: "user" for user code that makes its calls
\* one by one, or a callback modelled as a whole. For destroy(entity): pc "keys" in the loop over the tables and
\* "hook" while a free() runs, the number of tables the loop has reached
\* (key), the components whose free() was invoked (freed). For clear(): pc
\* "clear", the iterator's cursor, the entities passed to destroy (visited),
\* the hooks invoked (freed) and the live set when it began (start).
NoFrame ==
    [id |-> Undefined, cursor |-> 0, pc |-> "loop", visited |-> <<>>, calls |-> 0,
     stop |-> FALSE, entity |-> Null, key |-> 0, freed |-> <<>>, start |-> <<>>,
     callback |-> "user"]

\* User code runs at top level, inside the callback of the innermost each(),
\* or inside the free() hook the innermost destroy has invoked.
Running ==
    IF stack = <<>> THEN TRUE ELSE stack[Len(stack)].pc \in {"callback", "hook"}

\* User code makes a call when it has taken the outcome of its previous one.
CanCall == Running /\ lastOp.op = "none"

\* User code mutates the World: inside callbacks, a bounded number of times.
CanMutate ==
    /\ CanCall
    /\ \A i \in 1..Len(stack) : stack[i].calls < MaxCallbackOps

\* A mutation of the World is seen by every each() call in progress.
Touched(st) == [i \in 1..Len(st) |-> [st[i] EXCEPT !.calls = @ + 1]]

\* Deleting the entry at position p of the live set: an iterator that has
\* passed it has one entry less behind it.
Position(s, e) == CHOOSE i \in 1..Len(s) : s[i] = e

\* An iterator that steps back at every deletion, wherever the entry was.
DeletedRewinds(st, p) ==
    [i \in 1..Len(st) |->
        [st[i] EXCEPT !.calls = @ + 1,
                      !.cursor = IF @ > 0 THEN @ - 1 ELSE @]]

\* An iterator by index: a deletion leaves its position as it was.
DeletedKeepsCursor(st, p) == Touched(st)

\* The same for a deletion made by clear's own loop.
Shifted(st, p) ==
    [i \in 1..Len(st) |->
        [st[i] EXCEPT !.cursor = IF p <= @ THEN @ - 1 ELSE @]]

Deleted(st, p) ==
    [i \in 1..Len(st) |->
        [st[i] EXCEPT !.calls = @ + 1,
                      !.cursor = IF p <= @ THEN @ - 1 ELSE @]]

Init ==
    /\ entitySequence = 0
    /\ entities = <<>>
    /\ componentKeys = <<>>
    /\ components = [t \in AllKeys |-> [e \in AllIds |-> Undefined]]
    /\ views = <<>>
    /\ stack = <<>>
    /\ lastOp = NoOp
    /\ tags = [cache |-> <<>>, held |-> [n \in TagNameArgs |-> Undefined]]

\* create(...components)
Create(cs) ==
    /\ CanMutate
    /\ entitySequence <= MaxEntity
    /\ LET entity == entitySequence
           r == EmplaceEach(componentKeys, components, entity, cs)
       IN  /\ entitySequence' = entity + 1
           /\ entities' = SetAdd(entities, entity)
           /\ componentKeys' = r.keys
           /\ components' = r.comps
           /\ lastOp' = [NoOp EXCEPT !.op = "create", !.entity = entity, !.comps = cs]
    /\ stack' = Touched(stack)
    /\ UNCHANGED views
    /\ UNCHANGED tags

\* An insert that throws for an entity that is already live (the insert of an
\* earlier version of the World).
InsertStrict(entity, cs) ==
    /\ CanMutate
    /\ IF Exists(entity)
       THEN /\ lastOp' = [NoOp EXCEPT !.op = "insert", !.entity = entity,
                                      !.comps = cs, !.threw = TRUE]
            /\ UNCHANGED <<world, stack>>
       ELSE LET r == EmplaceEach(componentKeys, components, entity, cs)
            IN  /\ entitySequence' =
                       IF entity > entitySequence THEN entity + 1 ELSE entitySequence
                /\ entities' = SetAdd(entities, entity)
                /\ componentKeys' = r.keys
                /\ components' = r.comps
                /\ lastOp' = [NoOp EXCEPT !.op = "insert", !.entity = entity,
                                          !.comps = cs]
                /\ stack' = Touched(stack)
                /\ UNCHANGED views
    /\ UNCHANGED tags

\* An insert that starts the entity afresh: the components it held are dropped.
InsertFresh(entity, cs) ==
    /\ CanMutate
    /\ LET r == EmplaceEach(componentKeys, Erase(componentKeys, components, entity),
                            entity, cs)
       IN  /\ entitySequence' =
                  IF entity > entitySequence THEN entity + 1 ELSE entitySequence
           /\ entities' = SetAdd(entities, entity)
           /\ componentKeys' = r.keys
           /\ components' = r.comps
           /\ lastOp' = [NoOp EXCEPT !.op = "insert", !.entity = entity, !.comps = cs]
    /\ stack' = Touched(stack)
    /\ UNCHANGED views
    /\ UNCHANGED tags

\* An insert that sets the counter behind the inserted identifier whatever
\* the counter was.
InsertRewinds(entity, cs) ==
    /\ CanMutate
    /\ LET r == EmplaceEach(componentKeys, components, entity, cs)
       IN  /\ entitySequence' = entity + 1
           /\ entities' = SetAdd(entities, entity)
           /\ componentKeys' = r.keys
           /\ components' = r.comps
           /\ lastOp' = [NoOp EXCEPT !.op = "insert", !.entity = entity, !.comps = cs]
    /\ stack' = Touched(stack)
    /\ UNCHANGED views
    /\ UNCHANGED tags

\* insert(entity, ...components)
Insert(entity, cs) ==
    /\ CanMutate
    /\ LET r == EmplaceEach(componentKeys, components, entity, cs)
       IN  /\ entitySequence' =
                  IF entity > entitySequence THEN entity + 1 ELSE entitySequence
           /\ entities' = SetAdd(entities, entity)
           /\ componentKeys' = r.keys
           /\ components' = r.comps
           /\ lastOp' = [NoOp EXCEPT !.op = "insert", !.entity = entity, !.comps = cs]
    /\ stack' = Touched(stack)
    /\ UNCHANGED views
    /\ UNCHANGED tags

\* A destroy that throws for an entity that is not live, as remove does.
DestroyStrict(entity) ==
    /\ CanMutate
    /\ IF ~Exists(entity)
       THEN /\ lastOp' = [NoOp EXCEPT !.op = "destroy", !.entity = entity,
                                      !.threw = TRUE]
            /\ UNCHANGED <<entities, components, stack>>
       ELSE LET r == DestroyIn([ents |-> entities, comps |-> components,
                                freed |-> <<>>], componentKeys, entity)
            IN  /\ entities' = r.ents
                /\ components' = r.comps
                /\ lastOp' = [NoOp EXCEPT !.op = "destroy", !.entity = entity,
                                          !.freed = r.freed]
                /\ stack' = Deleted(stack, Position(entities, entity))
    /\ UNCHANGED <<entitySequence, componentKeys, views>>
    /\ UNCHANGED tags

\* destroy(entity)
Destroy(entity) ==
    /\ CanMutate
    /\ LET r == DestroyIn([ents |-> entities, comps |-> components, freed |-> <<>>],
                          componentKeys, entity)
       IN  /\ entities' = r.ents
           /\ components' = r.comps
           /\ lastOp' = [NoOp EXCEPT !.op = "destroy", !.entity = entity,
                                     !.freed = r.freed]
    /\ stack' = IF Exists(entity) THEN Deleted(stack, Position(entities, entity))
                ELSE Touched(stack)
    /\ UNCHANGED <<entitySequence, componentKeys, views>>
    /\ UNCHANGED tags

\* An emplace that invokes the free() hook of the component it replaces.
EmplaceFreesOld(entity, c) ==
    /\ CanMutate
    /\ IF ~Exists(entity)
       THEN /\ lastOp' = [NoOp EXCEPT !.op = "emplace", !.entity = entity,
                                      !.comps = <<c>>, !.threw = TRUE]
            /\ UNCHANGED <<componentKeys, components, stack>>
       ELSE LET old == components[TypeOf(c)][entity]
            IN  /\ componentKeys' = StoreKeys(componentKeys, c)
                /\ components' = StoreComp(components, entity, c)
                /\ lastOp' = [NoOp EXCEPT !.op = "emplace", !.entity = entity,
                                          !.comps = <<c>>, !.prev = old,
                                          !.freed = IF old # Undefined /\ HasFree(old)
                                                    THEN <<old>> ELSE <<>>]
                /\ stack' = Touched(stack)
    /\ UNCHANGED <<entitySequence, entities, views>>
    /\ UNCHANGED tags

\* An emplace without the liveness check.
EmplaceUnchecked(entity, c) ==
    /\ CanMutate
    /\ componentKeys' = StoreKeys(componentKeys, c)
    /\ components' = StoreComp(components, entity, c)
    /\ lastOp' = [NoOp EXCEPT !.op = "emplace", !.entity = entity, !.comps = <<c>>]
    /\ stack' = Touched(stack)
    /\ UNCHANGED <<entitySequence, entities, views>>
    /\ UNCHANGED tags

\* An emplace that leaves an occupied slot as it is.
EmplaceIfAbsent(entity, c) ==
    /\ CanMutate
    /\ IF ~Exists(entity)
       THEN /\ lastOp' = [NoOp EXCEPT !.op = "emplace", !.entity = entity,
                                      !.comps = <<c>>, !.threw = TRUE]
            /\ UNCHANGED <<componentKeys, components, stack>>
       ELSE /\ componentKeys' = StoreKeys(componentKeys, c)
            /\ components' = IF components[TypeOf(c)][entity] = Undefined
                             THEN StoreComp(components, entity, c)
                             ELSE components
            /\ lastOp' = [NoOp EXCEPT !.op = "emplace", !.entity = entity,
                                      !.comps = <<c>>,
                                      !.prev = components[TypeOf(c)][entity]]
            /\ stack' = Touched(stack)
    /\ UNCHANGED <<entitySequence, entities, views>>
    /\ UNCHANGED tags

\* emplace(entity, component)
Emplace(entity, c) ==
    /\ CanMutate
    /\ IF ~Exists(entity)
       THEN /\ lastOp' = [NoOp EXCEPT !.op = "emplace", !.entity = entity,
                                      !.comps = <<c>>, !.threw = TRUE]
            /\ UNCHANGED <<componentKeys, components, stack>>
       ELSE /\ componentKeys' = StoreKeys(componentKeys, c)
            /\ components' = StoreComp(components, entity, c)
            /\ lastOp' = [NoOp EXCEPT !.op = "emplace", !.entity = entity,
                                      !.comps = <<c>>,
                                      !.prev = components[TypeOf(c)][entity]]
            /\ stack' = Touched(stack)
    /\ UNCHANGED <<entitySequence, entities, views>>
    /\ UNCHANGED tags

\* A remove that deletes the entity's entry from every table.
RemoveErasesAll(entity, type) ==
    /\ CanMutate
    /\ IF ~Exists(entity)
       THEN /\ lastOp' = [NoOp EXCEPT !.op = "remove", !.entity = entity,
                                      !.type = type, !.threw = TRUE]
            /\ UNCHANGED <<components, stack>>
       ELSE IF NoTable(componentKeys, type)
       THEN /\ lastOp' = [NoOp EXCEPT !.op = "remove", !.entity = entity,
                                      !.type = type]
            /\ UNCHANGED <<components, stack>>
       ELSE /\ lastOp' = [NoOp EXCEPT !.op = "remove", !.entity = entity,
                                      !.type = type, !.ret = components[type][entity]]
            /\ components' = Erase(componentKeys, components, entity)
            /\ stack' = Touched(stack)
    /\ UNCHANGED <<entitySequence, entities, componentKeys, views>>
    /\ UNCHANGED tags

\* A remove that returns the component and leaves it in its table.
RemoveKeeps(entity, type) ==
    /\ CanMutate
    /\ IF ~Exists(entity)
       THEN lastOp' = [NoOp EXCEPT !.op = "remove", !.entity = entity,
                                   !.type = type, !.threw = TRUE]
       ELSE lastOp' = [NoOp EXCEPT !.op = "remove", !.entity = entity,
                                   !.type = type, !.ret = GetValue(entity, type)]
    /\ UNCHANGED <<world, stack>>
    /\ UNCHANGED tags

\* A remove that releases the component it detaches, as destroy does.
RemoveFrees(entity, type) ==
    /\ CanMutate
    /\ IF ~Exists(entity)
       THEN /\ lastOp' = [NoOp EXCEPT !.op = "remove", !.entity = entity,
                                      !.type = type, !.threw = TRUE]
            /\ UNCHANGED <<components, stack>>
       ELSE IF NoTable(componentKeys, type)
       THEN /\ lastOp' = [NoOp EXCEPT !.op = "remove", !.entity = entity,
                                      !.type = type]
            /\ UNCHANGED <<components, stack>>
       ELSE /\ lastOp' = [NoOp EXCEPT !.op = "remove", !.entity = entity,
                                      !.type = type, !.ret = components[type][entity],
                                      !.freed = FreedBy(<<type>>, components, entity)]
            /\ components' = [components EXCEPT ![type][entity] = Undefined]
            /\ stack' = Touched(stack)
    /\ UNCHANGED <<entitySequence, entities, componentKeys, views>>
    /\ UNCHANGED tags

\* remove(entity, component)
Remove(entity, type) ==
    /\ CanMutate
    /\ IF ~Exists(entity)
       THEN /\ lastOp' = [NoOp EXCEPT !.op = "remove", !.entity = entity,
                                      !.type = type, !.threw = TRUE]
            /\ UNCHANGED <<components, stack>>
       ELSE IF NoTable(componentKeys, type)
       THEN /\ lastOp' = [NoOp EXCEPT !.op = "remove", !.entity = entity,
                                      !.type = type]
            /\ UNCHANGED <<components, stack>>
       ELSE /\ lastOp' = [NoOp EXCEPT !.op = "remove", !.entity = entity,
                                      !.type = type, !.ret = components[type][entity]]
            /\ components' = [components EXCEPT ![type][entity] = Undefined]
            /\ stack' = Touched(stack)
    /\ UNCHANGED <<entitySequence, entities, componentKeys, views>>
    /\ UNCHANGED tags

\* A get with a liveness check, throwing for a dead entity.
GetStrict(entity, type) ==
    /\ CanCall
    /\ lastOp' = IF ~Exists(entity)
                 THEN [NoOp EXCEPT !.op = "get", !.entity = entity, !.type = type,
                                   !.threw = TRUE]
                 ELSE [NoOp EXCEPT !.op = "get", !.entity = entity, !.type = type,
                                   !.ret = GetValue(entity, type)]
    /\ UNCHANGED <<world, stack>>
    /\ UNCHANGED tags

\* get(entity, component)
Get(entity, type) ==
    /\ CanCall
    /\ lastOp' = [NoOp EXCEPT !.op = "get", !.entity = entity, !.type = type,
                              !.ret = GetValue(entity, type)]
    /\ UNCHANGED <<world, stack>>
    /\ UNCHANGED tags

\* has(entity, component)
Has(entity, type) ==
    /\ CanCall
    /\ lastOp' = [NoOp EXCEPT !.op = "has", !.entity = entity, !.type = type,
                              !.ret = IF HasValue(entity, type) THEN "true" ELSE "false"]
    /\ UNCHANGED <<world, stack>>
    /\ UNCHANGED tags

\* A clear that drops the tables with their entries.
ClearDropsTables ==
    /\ CanMutate
    /\ LET r == ClearLoop([ents |-> entities, comps |-> components, freed |-> <<>>],
                          componentKeys, 0)
       IN  /\ entities' = r.ents
           /\ components' = r.comps
           /\ lastOp' = [NoOp EXCEPT !.op = "clear", !.freed = r.freed]
    /\ componentKeys' = <<>>
    /\ stack' = [i \in 1..Len(stack) |->
                    [stack[i] EXCEPT !.calls = @ + 1, !.cursor = 0]]
    /\ UNCHANGED <<entitySequence, views, tags>>

\* clear()
Clear ==
    /\ CanMutate
    /\ LET r == ClearLoop([ents |-> entities, comps |-> components, freed |-> <<>>],
                          componentKeys, 0)
       IN  /\ entities' = r.ents
           /\ components' = r.comps
           /\ lastOp' = [NoOp EXCEPT !.op = "clear", !.freed = r.freed]
    /\ stack' = [i \in 1..Len(stack) |->
                    [stack[i] EXCEPT !.calls = @ + 1, !.cursor = 0]]
    /\ UNCHANGED <<entitySequence, componentKeys, views>>
    /\ UNCHANGED tags

\* The innermost call in progress returns.
Pop(st) == SubSeq(st, 1, Len(st) - 1)

\* destroy and clear step by step, for free() hooks that call the World.
\*
\* The entries of `e` in the tables number from..to are deleted.
EraseKeys(keys, comps, from, to, e) ==
    [t \in DOMAIN comps |->
        IF \E i \in from..to : keys[i] = t
        THEN [comps[t] EXCEPT ![e] = Undefined] ELSE comps[t]]

\* component !== undefined && component.free !== undefined, for the table
\* number i.
HookAt(keys, comps, i, e) ==
    comps[keys[i]][e] # Undefined /\ HasFree(comps[keys[i]][e])

\* A destroy that takes the entity out of the live set only after its loop.
DestroyBeginKeepsLive(entity) ==
    /\ CanMutate
    /\ stack' = Append(Touched(stack),
                       [NoFrame EXCEPT !.pc = "keys", !.entity = entity])
    /\ UNCHANGED <<world, lastOp, tags>>

\* destroy(entity) is entered: the entity leaves the live set, then the loop
\* over the tables begins.
DestroyBegin(entity) ==
    /\ CanMutate
    /\ entities' = SetDelete(entities, entity)
    /\ stack' = Append(IF Exists(entity)
                       THEN Deleted(stack, Position(entities, entity))
                       ELSE Touched(stack),
                       [NoFrame EXCEPT !.pc = "keys", !.entity = entity])
    /\ UNCHANGED <<entitySequence, componentKeys, components, views, lastOp, tags>>

\* The loop over the tables runs on, deleting the entries of the entity, up
\* to the next component with a free(), which it invokes, or to its end. At
\* the end destroy returns: to clear's loop when clear called it, and else to
\* user code.
DestroyStep ==
    /\ stack # <<>>
    /\ stack[Len(stack)].pc = "keys"
    /\ LET f == stack[Len(stack)]
           n == Len(componentKeys)
           H == {i \in (f.key + 1)..n : HookAt(componentKeys, components, i, f.entity)}
       IN  IF H # {}
           THEN LET k == CHOOSE i \in H : \A j \in H : i <= j
                IN  /\ components' = EraseKeys(componentKeys, components,
                                               f.key + 1, k - 1, f.entity)
                    /\ stack' = [stack EXCEPT ![Len(stack)] =
                           [f EXCEPT !.pc = "hook", !.key = k,
                                     !.freed = Append(@, components[componentKeys[k]][f.entity])]]
                    /\ UNCHANGED lastOp
           ELSE /\ components' = EraseKeys(componentKeys, components,
                                           f.key + 1, n, f.entity)
                /\ IF Len(stack) > 1 /\ stack[Len(stack) - 1].pc = "clear"
                   THEN /\ stack' = [Pop(stack) EXCEPT ![Len(stack) - 1].freed =
                                         @ \o f.freed]
                        /\ UNCHANGED lastOp
                   ELSE /\ stack' = Pop(stack)
                        /\ lastOp' = [NoOp EXCEPT !.op = "destroy",
                                                  !.entity = f.entity,
                                                  !.freed = f.freed,
                                                  !.calls = f.calls]
    /\ UNCHANGED <<entitySequence, entities, componentKeys, views, tags>>

\* The free() hook returns: the entry of the table it belongs to is deleted.
HookReturn ==
    /\ stack # <<>>
    /\ stack[Len(stack)].pc = "hook"
    /\ LET f == stack[Len(stack)]
       IN  /\ components' = EraseKeys(componentKeys, components, f.key, f.key,
                                      f.entity)
           /\ stack' = [stack EXCEPT ![Len(stack)].pc = "keys"]
    /\ UNCHANGED <<entitySequence, entities, componentKeys, views, lastOp, tags>>

\* clear() is entered: the iterator of entities.values() is created.
ClearBegin ==
    /\ CanMutate
    /\ stack' = Append(Touched(stack),
                       [NoFrame EXCEPT !.pc = "clear", !.start = entities])
    /\ UNCHANGED <<world, lastOp, tags>>

\* A clear that destroys the entities of a snapshot of the live set.
ClearStepSnapshot ==
    /\ stack # <<>>
    /\ stack[Len(stack)].pc = "clear"
    /\ LET f == stack[Len(stack)]
       IN  IF Len(f.visited) >= Len(f.start)
           THEN /\ stack' = Pop(stack)
                /\ lastOp' = [NoOp EXCEPT !.op = "clear", !.freed = f.freed,
                                          !.visited = f.visited, !.start = f.start,
                                          !.calls = f.calls]
                /\ UNCHANGED entities
           ELSE LET e == f.start[Len(f.visited) + 1]
                IN  /\ entities' = SetDelete(entities, e)
                    /\ stack' = Append(
                           [stack EXCEPT ![Len(stack)].visited = Append(@, e)],
                           [NoFrame EXCEPT !.pc = "keys", !.entity = e])
                    /\ UNCHANGED lastOp
    /\ UNCHANGED <<entitySequence, componentKeys, components, views, tags>>

\* clear's loop: the iterator returns the next entry of the live set as it is
\* now, and destroy is called with it; when the iterator is done clear
\* returns.
ClearStep ==
    /\ stack # <<>>
    /\ stack[Len(stack)].pc = "clear"
    /\ LET f == stack[Len(stack)]
       IN  IF f.cursor >= Len(entities)
           THEN /\ stack' = Pop(stack)
                /\ lastOp' = [NoOp EXCEPT !.op = "clear", !.freed = f.freed,
                                          !.visited = f.visited, !.start = f.start,
                                          !.calls = f.calls]
                /\ UNCHANGED entities
           ELSE LET e == entities[f.cursor + 1]
                IN  /\ entities' = SetDelete(entities, e)
                    /\ stack' = Append(
                           [Shifted(stack, f.cursor + 1)
                               EXCEPT ![Len(stack)].visited = Append(@, e)],
                           [NoFrame EXCEPT !.pc = "keys", !.entity = e])
                    /\ UNCHANGED lastOp
    /\ UNCHANGED <<entitySequence, componentKeys, components, views, tags>>

\* exists(entity)
ExistsCall(entity) ==
    /\ CanCall
    /\ lastOp' = [NoOp EXCEPT !.op = "exists", !.entity = entity,
                              !.ret = IF Exists(entity) THEN "true" ELSE "false"]
    /\ UNCHANGED <<world, stack>>
    /\ UNCHANGED tags

\* The type tuples views are requested for.
ViewTuples == {<<"A">>, <<"A", "B">>}

\* view's cache key: the concatenation of the type names.
RECURSIVE ViewId(_)
ViewId(types) == IF types = <<>> THEN "" ELSE Head(types) \o ViewId(Tail(types))

\* A view that creates no table for the types it has never seen (the view of
\* an earlier version of the World).
RegisteredNone(keys, types) == keys

\* view's loop over the types: never-seen types get an empty table.
RECURSIVE Registered(_, _)
Registered(keys, types) ==
    IF types = <<>> THEN keys
    ELSE Registered(IF NoTable(keys, Head(types)) THEN Append(keys, Head(types))
                    ELSE keys, Tail(types))

\* A view that gives each of its types a new, empty table.
ViewFreshTables(types) ==
    /\ CanCall
    /\ LET id == ViewId(types)
       IN  /\ IF id \in DOMAIN views
              THEN UNCHANGED <<componentKeys, components, views>>
              ELSE /\ componentKeys' = Registered(componentKeys, types)
                   /\ components' =
                         [t \in DOMAIN components |->
                             IF t \in Range(types)
                             THEN [e \in DOMAIN components[t] |-> Undefined]
                             ELSE components[t]]
                   /\ views' = (id :> types) @@ views
           /\ lastOp' = [NoOp EXCEPT !.op = "view", !.type = id, !.types = types]
    /\ UNCHANGED <<entitySequence, entities, stack, tags>>

\* view(...types): the View cached under the id, generated on the first request.
View(types) ==
    /\ CanCall
    /\ LET id == ViewId(types)
       IN  /\ IF id \in DOMAIN views
              THEN UNCHANGED <<componentKeys, views>>
              ELSE /\ componentKeys' = Registered(componentKeys, types)
                   /\ views' = (id :> types) @@ views
           /\ lastOp' = [NoOp EXCEPT !.op = "view", !.type = id, !.types = types]
    /\ UNCHANGED <<entitySequence, entities, components, stack>>
    /\ UNCHANGED tags

\* A loop body that looks up the first type only.
LookupFirst(keys, comps, types, e) ==
    IF types = <<>> THEN "call"
    ELSE IF NoTable(keys, Head(types)) THEN "throw"
    ELSE IF comps[Head(types)][e] = Undefined THEN "skip"
    ELSE "call"

\* A loop body that looks up the last type only.
LookupLast(keys, comps, types, e) ==
    IF types = <<>> THEN "call"
    ELSE IF NoTable(keys, types[Len(types)]) THEN "throw"
    ELSE IF comps[types[Len(types)]][e] = Undefined THEN "skip"
    ELSE "call"

\* The generated lookups of one entity, in the order of the types: a missing
\* table makes the lookup throw, the first undefined component skips the
\* entity, and with every component defined the callback is called.
RECURSIVE Lookup(_, _, _, _)
Lookup(keys, comps, types, e) ==
    IF types = <<>> THEN "call"
    ELSE IF NoTable(keys, Head(types)) THEN "throw"
    ELSE IF comps[Head(types)][e] = Undefined THEN "skip"
    ELSE Lookup(keys, comps, Tail(types), e)

\* The generated loop over entities.values(), from an iterator standing behind
\* n entries, up to the next callback invocation, a throw, or the end.
RECURSIVE Advance(_, _)
Advance(types, n) ==
    IF n >= Len(entities) THEN [cursor |-> n, at |-> "done"]
    ELSE LET r == Lookup(componentKeys, components, types, entities[n + 1])
         IN  IF r = "skip" THEN Advance(types, n + 1)
             ELSE [cursor |-> n + 1, at |-> r]

\* The outcome of an each() call that ends.
EachOutcome(f, how) ==
    [NoOp EXCEPT !.op = "each", !.type = f.id, !.types = views[f.id],
                 !.ret = how, !.threw = (how = "throw"),
                 !.visited = f.visited, !.mutated = (f.calls > 0),
                 !.calls = f.calls]

\* each(callback) on the cached View `id`: the generated function is entered.
EachBegin(id) ==
    /\ Running
    /\ lastOp.op \in {"none", "each"}
    /\ id \in DOMAIN views
    /\ stack = <<>>
    /\ stack' = Append(stack, [NoFrame EXCEPT !.id = id, !.pc = "loop"])
    /\ UNCHANGED <<world, lastOp>>
    /\ UNCHANGED tags

\* The generated loop runs on to its next callback invocation or to its end.
EachStep ==
    /\ stack # <<>>
    /\ stack[Len(stack)].pc = "loop"
    /\ LET f == stack[Len(stack)]
           r == Advance(views[f.id], f.cursor)
       IN  IF r.at = "call"
           THEN /\ stack' = [stack EXCEPT ![Len(stack)] =
                                [f EXCEPT !.cursor = r.cursor, !.pc = "callback",
                                          !.visited = Append(@, entities[r.cursor])]]
                /\ UNCHANGED lastOp
           ELSE /\ stack' = Pop(stack)
                /\ lastOp' = EachOutcome(f, r.at)
    /\ UNCHANGED world
    /\ UNCHANGED tags

\* each(callback) called from inside the callback of an each() in progress.
EachInside(id) ==
    /\ Running
    /\ lastOp.op \in {"none", "each"}
    /\ id \in DOMAIN views
    /\ stack # <<>>
    /\ Len(stack) < MaxDepth
    /\ stack' = Append(stack, [NoFrame EXCEPT !.id = id, !.pc = "loop"])
    /\ UNCHANGED <<world, lastOp, tags>>

\* A false that ends every each() call in progress.
CallbackReturnHaltsAll(stop) ==
    /\ stack # <<>>
    /\ stack[Len(stack)].pc = "callback"
    /\ IF stop
       THEN /\ stack' = <<>>
            /\ lastOp' = EachOutcome(stack[Len(stack)], "stopped")
       ELSE /\ stack' = [stack EXCEPT ![Len(stack)].pc = "loop"]
            /\ UNCHANGED lastOp
    /\ UNCHANGED <<world, tags>>

\* A loop that goes on whatever the callback returns.
CallbackReturnIgnored(stop) ==
    /\ stack # <<>>
    /\ stack[Len(stack)].pc = "callback"
    /\ stack' = [stack EXCEPT ![Len(stack)].pc = "loop", ![Len(stack)].stop = stop]
    /\ UNCHANGED <<world, lastOp>>
    /\ UNCHANGED tags

\* The callback returns: false ends the call, anything else lets the loop go on.
CallbackReturn(stop) ==
    /\ stack # <<>>
    /\ stack[Len(stack)].pc = "callback"
    /\ IF stop
       THEN /\ stack' = Pop(stack)
            /\ lastOp' = EachOutcome(stack[Len(stack)], "stopped")
       ELSE /\ stack' = [stack EXCEPT ![Len(stack)].pc = "loop"]
            /\ UNCHANGED lastOp
    /\ UNCHANGED world
    /\ UNCHANGED tags

\* The callback of the test "view doesn't loop infinitely", as a whole:
\*   (e) => { if (e > 5) return false; world.create(A); }
\* where the component given to create is the class A itself.
LoopCallback ==
    /\ stack # <<>>
    /\ stack[Len(stack)].pc = "callback"
    /\ LET f == stack[Len(stack)]
           e == f.visited[Len(f.visited)]
           entity == entitySequence
           r == EmplaceEach(componentKeys, components, entity, <<"classA">>)
       IN  IF e > LoopLimit
           THEN /\ stack' = Pop(stack)
                /\ lastOp' = EachOutcome(f, "stopped")
                /\ UNCHANGED world
           ELSE /\ entitySequence' = entity + 1
                /\ entities' = SetAdd(entities, entity)
                /\ componentKeys' = r.keys
                /\ components' = r.comps
                /\ stack' = [Touched(stack) EXCEPT ![Len(stack)].pc = "loop"]
                /\ UNCHANGED <<views, lastOp>>
    /\ UNCHANGED tags

\* The invocations of the callback the generated function makes, from an
\* iterator standing behind n entries, when the callback does not call the
\* World: the entity and the variables of the generated lookups, in the order
\* of the types the function was generated for.
RECURSIVE Invocations(_, _, _, _, _)
Invocations(keys, comps, ents, types, n) ==
    IF n >= Len(ents) THEN <<>>
    ELSE LET e == ents[n + 1]
             r == Lookup(keys, comps, types, e)
         IN  IF r = "throw" THEN <<>>
             ELSE IF r = "skip" THEN Invocations(keys, comps, ents, types, n + 1)
             ELSE <<[entity |-> e,
                     args |-> [i \in 1..Len(types) |-> comps[types[i]][e]]]>>
                  \o Invocations(keys, comps, ents, types, n + 1)

\* world.view(...types).each(callback), with a callback that records its
\* arguments and does not call the World: the View cached under the id is
\* the one that runs.
ViewEach(types) ==
    /\ CanCall
    /\ stack = <<>>
    /\ LET id == ViewId(types)
           generated == IF id \in DOMAIN views THEN views[id] ELSE types
           keys == IF id \in DOMAIN views THEN componentKeys
                   ELSE Registered(componentKeys, types)
           calls == Invocations(keys, components, entities, generated, 0)
           threw == \E i \in 1..Len(entities) :
                       Lookup(keys, components, generated, entities[i]) = "throw"
       IN  /\ componentKeys' = keys
           /\ views' = IF id \in DOMAIN views THEN views ELSE (id :> types) @@ views
           /\ lastOp' = [NoOp EXCEPT !.op = "viewEach", !.type = id, !.types = types,
                                     !.ret = IF threw THEN "throw" ELSE "done",
                                     !.threw = threw,
                                     !.visited = [k \in 1..Len(calls) |-> calls[k].entity],
                                     !.args = [k \in 1..Len(calls) |-> calls[k].args]]
    /\ UNCHANGED <<entitySequence, entities, components, stack, tags>>

\* each(callback) with the callback of the View documentation without its base
\* case:
\*   (entity) => { world.create(A); }
EachGrow(id) ==
    /\ id \in DOMAIN views
    /\ lastOp.op = "none"
    /\ stack = <<>>
    /\ stack' = <<[NoFrame EXCEPT !.id = id, !.pc = "loop", !.callback = "grow"]>>
    /\ UNCHANGED <<world, lastOp, tags>>

\* An invocation of that callback, as a whole, while identifiers last.
GrowCallback ==
    /\ stack # <<>>
    /\ stack[Len(stack)].pc = "callback"
    /\ stack[Len(stack)].callback = "grow"
    /\ entitySequence <= MaxEntity + LoopLimit
    /\ LET entity == entitySequence
           r == EmplaceEach(componentKeys, components, entity, <<"classA">>)
       IN  /\ entitySequence' = entity + 1
           /\ entities' = SetAdd(entities, entity)
           /\ componentKeys' = r.keys
           /\ components' = r.comps
           /\ stack' = [Touched(stack) EXCEPT ![Len(stack)].pc = "loop"]
    /\ UNCHANGED <<views, lastOp, tags>>

\* each(callback) with a callback that destroys the entity it is called with
\* and inserts the same identifier again, with a component of type A:
\*   (entity) => { world.destroy(entity); world.insert(entity, new A); }
EachRespawn(id) ==
    /\ id \in DOMAIN views
    /\ lastOp.op = "none"
    /\ stack = <<>>
    /\ stack' = <<[NoFrame EXCEPT !.id = id, !.pc = "loop", !.callback = "respawn"]>>
    /\ UNCHANGED <<world, lastOp, tags>>

\* The first statement of that callback, while the number of invocations is
\* within the bound: destroy(entity).
RespawnDestroy ==
    /\ stack # <<>>
    /\ stack[Len(stack)].pc = "callback"
    /\ stack[Len(stack)].callback = "respawn"
    /\ Len(stack[Len(stack)].visited) <= MaxVisits
    /\ LET f == stack[Len(stack)]
           entity == f.visited[Len(f.visited)]
           r == DestroyIn([ents |-> entities, comps |-> components, freed |-> <<>>],
                          componentKeys, entity)
       IN  /\ entities' = r.ents
           /\ components' = r.comps
           /\ stack' = [(IF Exists(entity)
                         THEN Deleted(stack, Position(entities, entity))
                         ELSE Touched(stack))
                           EXCEPT ![Len(stack)].pc = "respawn"]
    /\ UNCHANGED <<entitySequence, componentKeys, views, lastOp, tags>>

\* Its second statement: insert(entity, new A); then the callback returns.
RespawnInsert ==
    /\ stack # <<>>
    /\ stack[Len(stack)].pc = "respawn"
    /\ LET f == stack[Len(stack)]
           entity == f.visited[Len(f.visited)]
           r == EmplaceEach(componentKeys, components, entity, <<"a2">>)
       IN  /\ entitySequence' =
                  IF entity > entitySequence THEN entity + 1 ELSE entitySequence
           /\ entities' = SetAdd(entities, entity)
           /\ componentKeys' = r.keys
           /\ components' = r.comps
           /\ stack' = [Touched(stack) EXCEPT ![Len(stack)].pc = "loop"]
    /\ UNCHANGED <<views, lastOp, tags>>

\* An iterator of entities.values() run to its end from behind n entries:
\* the entries it returns, in order.
RECURSIVE Drain(_, _)
Drain(s, n) == IF n >= Len(s) THEN <<>> ELSE <<s[n + 1]>> \o Drain(s, n + 1)

\* for (const e of world.all()) with a body that does not call the World.
All ==
    /\ CanCall
    /\ lastOp' = [NoOp EXCEPT !.op = "all", !.visited = Drain(entities, 0)]
    /\ UNCHANGED <<world, stack>>
    /\ UNCHANGED tags

\* Tag.cache[n]: an own property of the cache, or else an inherited one.
CacheGet(cache, n) ==
    IF n \in DOMAIN cache THEN cache[n] ELSE InheritedProperty(n)

\* Tag.for(name): user code keeps the returned type under the name it gave.
TagFor(name) ==
    /\ CanCall
    /\ LET n == NameString(name)
           t == CacheGet(tags.cache, n)
       IN  IF t = Undefined
           THEN /\ tags' = [cache |-> (n :> NewTag(n)) @@ tags.cache,
                            held |-> [tags.held EXCEPT ![name] = NewTag(n)]]
                /\ lastOp' = [NoOp EXCEPT !.op = "for", !.type = name,
                                          !.ret = NewTag(n)]
           ELSE /\ tags' = [tags EXCEPT !.held[name] = t]
                /\ lastOp' = [NoOp EXCEPT !.op = "for", !.type = name, !.ret = t]
    /\ UNCHANGED <<world, stack>>

\* The caller takes the outcome of the call it made.
Return ==
    /\ lastOp.op # "none"
    /\ lastOp' = NoOp
    /\ UNCHANGED <<world, stack>>
    /\ UNCHANGED tags

Next ==
    \/ \E cs \in SeqUpTo(Instances, MaxArgs) : Create(cs)
    \/ \E e \in Ids, cs \in SeqUpTo(Instances, MaxArgs) : Insert(e, cs)
    \/ \E e \in Ids : Destroy(e)
    \/ \E e \in Ids, c \in Instances : Emplace(e, c)
    \/ \E e \in Ids, t \in TypeNames : Remove(e, t)
    \/ \E e \in Ids, t \in TypeNames : Get(e, t)
    \/ \E e \in Ids, t \in TypeNames : Has(e, t)
    \/ Clear
    \/ Return

Spec == Init /\ [][Next]_vars

\* The component instances and argument lists used with views.
EachArgs == {<<>>, <<"a1">>, <<"b1">>, <<"a1", "b1">>}

NextEach ==
    \/ \E cs \in EachArgs : Create(cs)
    \/ \E e \in Ids, cs \in EachArgs : Insert(e, cs)
    \/ \E e \in Ids : Destroy(e)
    \/ \E e \in Ids, c \in {"a1", "b1"} : Emplace(e, c)
    \/ \E e \in Ids, t \in TypeNames : Remove(e, t)
    \/ Clear
    \/ \E types \in ViewTuples : View(types)
    \/ \E id \in DOMAIN views : EachBegin(id)
    \/ EachStep
    \/ \E stop \in BOOLEAN : CallbackReturn(stop)
    \/ Return

SpecEach == Init /\ [][NextEach]_vars

\* Views over classes whose names concatenate to the same string: the tuple
\* (A, B) and the single class AB.
CollidingTuples == {<<"A", "B">>, <<"AB">>}

CollidingArgs == {<<>>, <<"a1", "b1">>, <<"ab1">>}

NextViews ==
    \/ \E cs \in CollidingArgs : Create(cs)
    \/ \E e \in Ids : Destroy(e)
    \/ \E types \in CollidingTuples : View(types)
    \/ \E id \in DOMAIN views : EachBegin(id)
    \/ EachStep
    \/ \E stop \in BOOLEAN : CallbackReturn(stop)
    \/ Return

SpecViews == Init /\ [][NextViews]_vars

\* Callbacks that mutate the entities the iterator has not gone past: the
\* entity being visited is the last one the iterator returned, the entities
\* not yet visited are the ones behind it in the live set.
Current(e) ==
    /\ stack # <<>>
    /\ Exists(e)
    /\ Position(entities, e) = stack[Len(stack)].cursor

NotYetVisited(e) ==
    /\ stack # <<>>
    /\ Exists(e)
    /\ Position(entities, e) > stack[Len(stack)].cursor

\* Worlds are built at top level; a callback destroys the entity it is called
\* with or one not yet visited, or emplaces on or removes from one not yet
\* visited.
NextAhead ==
    \/ stack = <<>> /\ \E cs \in EachArgs : Create(cs)
    \/ \E e \in Ids : Current(e) /\ Destroy(e)
    \/ \E e \in Ids : NotYetVisited(e) /\ Destroy(e)
    \/ \E e \in Ids, c \in {"a1", "b1"} : NotYetVisited(e) /\ Emplace(e, c)
    \/ \E e \in Ids, t \in TypeNames : NotYetVisited(e) /\ Remove(e, t)
    \/ \E types \in ViewTuples : View(types)
    \/ \E id \in DOMAIN views : EachBegin(id)
    \/ EachStep
    \/ \E stop \in BOOLEAN : CallbackReturn(stop)
    \/ Return

SpecAhead == Init /\ [][NextAhead]_vars

\* Worlds built at top level whose destroy and clear run step by step, with
\* free() hooks that call create, insert, exists and get.
InHook == stack # <<>> /\ stack[Len(stack)].pc = "hook"

NextHooks ==
    \/ stack = <<>> /\ \E cs \in EachArgs : Create(cs)
    \/ stack = <<>> /\ \E e \in Ids : DestroyBegin(e)
    \/ stack = <<>> /\ ClearBegin
    \/ DestroyStep
    \/ HookReturn
    \/ ClearStep
    \/ InHook /\ Create(<<>>)
    \/ InHook /\ \E e \in Ids : Insert(e, <<>>)
    \/ InHook /\ \E e \in Ids : ExistsCall(e)
    \/ InHook /\ \E e \in Ids, t \in TypeNames : Get(e, t)
    \/ Return

SpecHooks == Init /\ [][NextHooks]_vars

\* Enumerations of the live set, of worlds built and taken down at top level.
AllArgs == {<<>>, <<"a1">>}

NextAll ==
    \/ \E cs \in AllArgs : Create(cs)
    \/ \E e \in Ids, cs \in AllArgs : Insert(e, cs)
    \/ \E e \in Ids : Destroy(e)
    \/ Clear
    \/ All
    \/ Return

SpecAll == Init /\ [][NextAll]_vars

\* Tags: user code gets types from Tag.for, creates entities with a tag as
\* the component, and asks has() with a tag as the type (type.name).
NextTags ==
    \/ \E name \in TagNameArgs : TagFor(name)
    \/ \E name \in TagNameArgs :
          tags.held[name] # Undefined /\ Create(<<tags.held[name]>>)
    \/ \E e \in Ids, name \in TagNameArgs :
          tags.held[name] # Undefined /\ Has(e, OwnName(tags.held[name]))
    \/ Return

SpecTags == Init /\ [][NextTags]_vars

\* The test "view doesn't loop infinitely" on the worlds that create and
\* insert build from entities with and without the component A: each() on the
\* View of A with the callback of the test, begun while the counter is small
\* enough for the identifiers it creates.
LoopArgs == {<<>>, <<"classA">>}

NextLoop ==
    \/ stack = <<>> /\ \E cs \in LoopArgs : Create(cs)
    \/ stack = <<>> /\ \E e \in Ids, cs \in LoopArgs : Insert(e, cs)
    \/ View(<<"A">>)
    \/ entitySequence <= MaxEntity + 1 /\ EachBegin("A")
    \/ EachStep
    \/ LoopCallback
    \/ Return

SpecLoop == Init /\ [][NextLoop]_vars

\* each() with callbacks that add a bounded number of entities, and with the
\* callback that creates a matching entity on every invocation. The generated
\* loop keeps running, and a callback of user code returns.
InGrow == stack # <<>> /\ stack[Len(stack)].callback = "grow"

NextTerm ==
    \/ ~InGrow /\ \E cs \in LoopArgs : Create(cs)
    \/ ~InGrow /\ \E e \in Ids, cs \in LoopArgs : Insert(e, cs)
    \/ stack = <<>> /\ View(<<"A">>)
    \/ EachBegin("A")
    \/ stack = <<>> /\ EachGrow("A")
    \/ EachStep
    \/ ~InGrow /\ \E stop \in BOOLEAN : CallbackReturn(stop)
    \/ GrowCallback
    \/ Return

SpecTerm ==
    /\ Init /\ [][NextTerm]_vars
    /\ WF_vars(EachStep)
    /\ WF_vars(~InGrow /\ \E stop \in BOOLEAN : CallbackReturn(stop))

\* Views of two types requested in both orders, over entities that hold the
\* types in either order of attachment; among the types two whose names
\* concatenate to the same string in both orders.
OrderTuples == {<<"A", "B">>, <<"B", "A">>, <<"A", "AA">>, <<"AA", "A">>}

OrderArgs == {<<"a1">>, <<"a1", "b1">>, <<"b1", "a2">>, <<"a1", "aa1">>}

NextOrder ==
    \/ \E cs \in OrderArgs : Create(cs)
    \/ \E e \in Ids : Destroy(e)
    \/ \E types \in OrderTuples : ViewEach(types)
    \/ Return

SpecOrder == Init /\ [][NextOrder]_vars

\* each() calls made from inside callbacks, on the same View or another, over
\* worlds built at top level.
NextNested ==
    \/ stack = <<>> /\ \E cs \in EachArgs : Create(cs)
    \/ stack = <<>> /\ \E types \in ViewTuples : View(types)
    \/ \E id \in DOMAIN views : EachBegin(id)
    \/ \E id \in DOMAIN views : EachInside(id)
    \/ EachStep
    \/ \E stop \in BOOLEAN : CallbackReturn(stop)
    \/ Return

SpecNested == Init /\ [][NextNested]_vars

\* Worlds whose components include an instance with a `name` field of its own,
\* queried by the classes A, B and Label.
NamedInstances == {"a1", "b1", "label1"}

NamedTypes == {"A", "B", "Label"}

NextNamed ==
    \/ \E cs \in {<<>>, <<"a1">>, <<"label1">>} : Create(cs)
    \/ \E e \in Ids, c \in NamedInstances : Emplace(e, c)
    \/ \E e \in Ids, t \in NamedTypes : Remove(e, t)
    \/ \E e \in Ids, t \in NamedTypes : Get(e, t)
    \/ \E e \in Ids, t \in NamedTypes : Has(e, t)
    \/ \E e \in Ids : Destroy(e)
    \/ Return

SpecNamed == Init /\ [][NextNamed]_vars

\* each() with callbacks that destroy and insert entities, among them the
\* callback that destroys the entity it is called with and inserts it again.
InRespawn == stack # <<>> /\ stack[Len(stack)].callback = "respawn"

NextRevisit ==
    \/ stack = <<>> /\ \E cs \in {<<>>, <<"a1">>} : Create(cs)
    \/ ~InRespawn /\ \E e \in Ids : Destroy(e)
    \/ ~InRespawn /\ \E e \in Ids : Insert(e, <<"a1">>)
    \/ stack = <<>> /\ View(<<"A">>)
    \/ EachBegin("A")
    \/ stack = <<>> /\ EachRespawn("A")
    \/ EachStep
    \/ ~InRespawn /\ \E stop \in BOOLEAN : CallbackReturn(stop)
    \/ RespawnDestroy
    \/ RespawnInsert
    \/ Return

SpecRevisit == Init /\ [][NextRevisit]_vars

\* Views cached in the fresh World, before any entity is created; afterwards
\* entities are created, lose components, are destroyed (all but the first
\* one) and cleared at top level, and the cached Views are iterated.
NextCached ==
    \/ entitySequence = 0 /\ \E types \in ViewTuples : View(types)
    \/ stack = <<>> /\ \E cs \in EachArgs : Create(cs)
    \/ stack = <<>> /\ \E e \in Ids, t \in TypeNames : Remove(e, t)
    \/ stack = <<>> /\ \E e \in Ids \ {0} : Destroy(e)
    \/ stack = <<>> /\ Clear
    \/ \E id \in DOMAIN views : EachBegin(id)
    \/ EachStep
    \/ \E stop \in BOOLEAN : CallbackReturn(stop)
    \/ Return

SpecCached == Init /\ [][NextCached]_vars

----------------------------------------------------------------------------
\* The components with a free() hook attached to entity e.
Hooked(e) == {c \in Instances : HasFree(c) /\ \E t \in AllKeys : components[t][e] = c}

\* C2: create() returns an entity that exists immediately afterwards, and
\* size() is exactly one greater than before the call.
C2_CreateAddsOne ==
    [][lastOp'.op = "create" =>
          /\ SetHas(entities', lastOp'.entity)
          /\ Len(entities') = Len(entities) + 1]_vars

\* C3: after insert(N) the sequence counter is at least N+1, so that the next
\* create() returns a value greater than N.
C3_InsertAdvancesSequence ==
    lastOp.op = "insert" => entitySequence >= lastOp.entity + 1

\* C4: emplace on an entity outside the live set throws and leaves the World
\* unchanged.
C4_EmplaceDeadThrows ==
    [][(lastOp'.op = "emplace" /\ ~Exists(lastOp'.entity)) =>
          /\ lastOp'.threw
          /\ world' = world]_vars

C4_Witness ==
    /\ lastOp.op = "emplace"
    /\ lastOp.threw
    /\ ~Exists(lastOp.entity)
    /\ entities # <<>>

\* C5: has(e,T) becomes true only by an emplace of T on e (directly or through
\* create or insert); it is true right after emplace(e,x), with x the stored
\* component; remove(e,T) on a live entity returns the component that was
\* stored (absent when none was, as on a repeated remove) and has(e,T) is
\* false afterwards.
C5_EmplaceHasRemove ==
    [][/\ \A e \in Ids, t \in AllKeys :
             (~HasValue(e, t) /\ HasIn(componentKeys', components', e, t)) =>
                 /\ lastOp'.op \in {"emplace", "create", "insert"}
                 /\ lastOp'.entity = e
                 /\ \E i \in 1..Len(lastOp'.comps) : TypeOf(lastOp'.comps[i]) = t
       /\ (lastOp'.op = "emplace" /\ ~lastOp'.threw) =>
             /\ HasIn(componentKeys', components', lastOp'.entity, TypeOf(lastOp'.comps[1]))
             /\ GetIn(componentKeys', components', lastOp'.entity,
                      TypeOf(lastOp'.comps[1])) = lastOp'.comps[1]
       /\ (lastOp'.op = "remove" /\ ~lastOp'.threw) =>
             /\ lastOp'.ret = components[lastOp'.type][lastOp'.entity]
             /\ ~HasIn(componentKeys', components', lastOp'.entity, lastOp'.type)
      ]_vars

C5_Witness ==
    /\ lastOp.op = "remove"
    /\ lastOp.ret \in Instances
    /\ Exists(lastOp.entity)

\* C6: destroy(e) on a live entity invokes the free() hook of every component
\* attached to e exactly once and no other hook; afterwards e does not exist
\* and has no component of any type.
C6_DestroyFrees ==
    [][(lastOp'.op = "destroy" /\ Exists(lastOp'.entity)) =>
          /\ Range(lastOp'.freed) = Hooked(lastOp'.entity)
          /\ Len(lastOp'.freed) = Cardinality(Hooked(lastOp'.entity))
          /\ ~SetHas(entities', lastOp'.entity)
          /\ \A t \in AllKeys : ~HasIn(componentKeys', components', lastOp'.entity, t)
      ]_vars

C6_Witness ==
    /\ lastOp.op = "destroy"
    /\ Len(lastOp.freed) = 2
    /\ entities # <<>>

\* C7: after clear() size() is 0, no entity has any component, and the free()
\* hook of every component that was attached to a live entity has been invoked.
C7_ClearEmpties ==
    [][lastOp'.op = "clear" =>
          /\ Len(entities') = 0
          /\ \A e \in Ids, t \in AllKeys : components'[t][e] = Undefined
          /\ \A e \in Range(entities) : Hooked(e) \subseteq Range(lastOp'.freed)
      ]_vars

C7_Witness ==
    /\ lastOp.op = "clear"
    /\ Len(lastOp.freed) >= 3
    /\ entities = <<>>

\* C9: remove(e,T) never throws; for a dead or never-seen entity it returns
\* absent.
C9_RemoveNeverThrows ==
    lastOp.op = "remove" => ~lastOp.threw

\* C10: get(e,T) never throws and changes nothing; it returns the component
\* stored for (e,T), and absent when e is not live, when e lacks T, or when
\* no table of T exists.
C10_GetTotal ==
    [][lastOp'.op = "get" =>
          /\ ~lastOp'.threw
          /\ world' = world
          /\ lastOp'.ret = components[lastOp'.type][lastOp'.entity]
          /\ ~Exists(lastOp'.entity) => lastOp'.ret = Undefined
          /\ NoTable(componentKeys, lastOp'.type) => lastOp'.ret = Undefined
      ]_vars

C10_Witness ==
    /\ lastOp.op = "get"
    /\ ~Exists(lastOp.entity)
    /\ ~NoTable(componentKeys, lastOp.type)
    /\ lastOp.ret = Undefined

\* The live entities holding a component of every type, in enumeration order.
Holds(e, types) == \A i \in 1..Len(types) : HasValue(e, types[i])

Matching(ents, types) == SelectSeq(ents, LAMBDA e : Holds(e, types))

\* C1: an each() call whose callback does not mutate the World and never
\* stops passes to the callback exactly the live entities holding every
\* requested type, each once, in the enumeration order of the live set.
C1_EachVisitsMatching ==
    (lastOp.op = "each" /\ lastOp.ret = "done" /\ ~lastOp.mutated) =>
        lastOp.visited = Matching(entities, lastOp.types)

C1_Witness ==
    /\ lastOp.op = "each"
    /\ lastOp.ret = "done"
    /\ ~lastOp.mutated
    /\ Len(lastOp.types) = 2
    /\ lastOp.visited # <<>>
    /\ Len(lastOp.visited) < Len(entities)

\* C8: a call whose callback returned false is over: no call in progress has
\* had its callback return false, and (without mutation) the stopped call
\* has visited a prefix of the matching entities; every call in progress,
\* whatever call was stopped before it, has visited exactly the matching
\* entities behind its iterator, starting from the first.
C8_StopHalts ==
    /\ \A i \in 1..Len(stack) : ~stack[i].stop
    /\ (lastOp.op = "each" /\ lastOp.ret = "stopped" /\ ~lastOp.mutated) =>
          /\ lastOp.visited # <<>>
          /\ lastOp.visited =
                SubSeq(Matching(entities, lastOp.types), 1, Len(lastOp.visited))
    /\ \A i \in 1..Len(stack) :
          stack[i].calls = 0 =>
              stack[i].visited =
                  Matching(SubSeq(entities, 1, stack[i].cursor), views[stack[i].id])

\* A call stopped before its last matching entity, and a later call on the
\* same View that has gone past the point where the earlier one stopped.
C8_Witness ==
    /\ lastOp.op = "each"
    /\ lastOp.ret = "stopped"
    /\ ~lastOp.mutated
    /\ Len(lastOp.visited) < Len(Matching(entities, lastOp.types))
    /\ stack # <<>>
    /\ stack[Len(stack)].id = lastOp.type
    /\ stack[Len(stack)].calls = 0
    /\ Len(stack[Len(stack)].visited) > Len(lastOp.visited)

\* C11: between the public operations, has(e,T) implies exists(e): no table
\* holds a component for an entity outside the live set, so has(e,T) is false
\* for every dead entity and for every type without a table.
C11_HasImpliesExists ==
    \A e \in Ids, t \in AllKeys :
        /\ HasValue(e, t) => Exists(e)
        /\ (~Exists(e) \/ NoTable(componentKeys, t)) => ~HasValue(e, t)
        /\ (lastOp.op = "has" /\ lastOp.ret = "true") => Exists(lastOp.entity)

\* An entity that held components has been destroyed while another entity
\* still holds one.
C11_Witness ==
    /\ lastOp.op = "destroy"
    /\ lastOp.freed # <<>>
    /\ ~Exists(lastOp.entity)
    /\ \E e \in Ids, t \in AllKeys : HasValue(e, t)

\* The component of type t that a create or insert with arguments cs leaves
\* attached: the last argument of that type, Undefined when there is none.
LastOfType(cs, t) ==
    LET I == {i \in 1..Len(cs) : TypeOf(cs[i]) = t}
    IN  IF I = {} THEN Undefined ELSE cs[CHOOSE i \in I : \A j \in I : j <= i]

\* C12: insert(e, c1..cn) on an entity that is already live does not fail:
\* the live set and size() are unchanged, no free() hook is invoked, every
\* given component replaces e's component of the same type, and every other
\* component, of e and of every other entity, stays as it was.
C12_InsertLiveAssigns ==
    [][(lastOp'.op = "insert" /\ Exists(lastOp'.entity)) =>
          /\ ~lastOp'.threw
          /\ entities' = entities
          /\ Len(entities') = Len(entities)
          /\ lastOp'.freed = <<>>
          /\ \A t \in AllKeys, e \in Ids :
                components'[t][e] =
                    IF e = lastOp'.entity /\ LastOfType(lastOp'.comps, t) # Undefined
                    THEN LastOfType(lastOp'.comps, t)
                    ELSE components[t][e]
      ]_vars

\* insert(e, a2) has replaced the A component of an entity that keeps the B
\* component it held before.
C12_Witness ==
    /\ lastOp.op = "insert"
    /\ lastOp.comps = <<"a2">>
    /\ GetValue(lastOp.entity, "A") = "a2"
    /\ GetValue(lastOp.entity, "B") = "b1"

\* C13 (as stated): insert(e) on an entity that is already live throws and
\* leaves the World unchanged.
C13_InsertDuplicateThrows ==
    [][(lastOp'.op = "insert" /\ Exists(lastOp'.entity)) =>
          /\ lastOp'.threw
          /\ world' = world]_vars

\* C13 (amended): insert(e), without components, on an entity that is already
\* live signals no error and leaves the World unchanged.
C13_InsertDuplicateAccepted ==
    [][(lastOp'.op = "insert" /\ Exists(lastOp'.entity) /\ lastOp'.comps = <<>>) =>
          /\ ~lastOp'.threw
          /\ lastOp'.entity \in Range(entities')
          /\ world' = world]_vars

\* insert(e) has returned on an entity that holds a component, so one that was
\* live before the call.
C13_Witness ==
    /\ lastOp.op = "insert"
    /\ lastOp.comps = <<>>
    /\ ~lastOp.threw
    /\ \E t \in AllKeys : HasValue(lastOp.entity, t)

\* C14: the View that view(...types) returns is the cached View of that same
\* tuple: it passes to the callback exactly the live entities holding every
\* type of the requested tuple, whatever other tuples were requested before.
C14_ViewPerTuple ==
    lastOp.op = "view" =>
        /\ lastOp.type \in DOMAIN views
        /\ Matching(entities, views[lastOp.type]) = Matching(entities, lastOp.types)

\* C15: each() on a View never throws, and on a View over a type of which no
\* entity holds a component (one never stored in particular) it calls the
\* callback zero times, however many entities are live.
C15_EmptyViewNeverFails ==
    lastOp.op = "each" =>
        /\ ~lastOp.threw
        /\ lastOp.ret # "throw"
        /\ (/\ ~lastOp.mutated
            /\ \E i \in 1..Len(lastOp.types) :
                  \A e \in Ids : ~HasValue(e, lastOp.types[i])) =>
              lastOp.visited = <<>>

\* each() on the View of (A, B) has ended without a call while live entities
\* hold A and none holds B.
C15_Witness ==
    /\ lastOp.op = "each"
    /\ lastOp.ret = "done"
    /\ lastOp.types = <<"A", "B">>
    /\ lastOp.visited = <<>>
    /\ Len(entities) > 1
    /\ \A e \in Range(entities) : HasValue(e, "A") /\ ~HasValue(e, "B")

\* Holds and Matching on given tables.
HoldsIn(keys, comps, e, types) ==
    \A i \in 1..Len(types) : HasIn(keys, comps, e, types[i])

MatchingIn(keys, comps, ents, types) ==
    SelectSeq(ents, LAMBDA e : HoldsIn(keys, comps, e, types))

\* C16: a create in the callback of each(), with components matching the
\* View, adds a new entity, after the entities that were live; a call that
\* ends without being stopped has visited every matching entity, the created
\* ones included, in that order, and a stopped call a prefix of them. With
\* the callback that creates one matching entity per invocation and stops on
\* the first entity greater than LoopLimit, a call on a world with a single
\* entity, holding A, ends with size() = LoopLimit + 2 (7).
C16_CreatedInsideVisited ==
    [][/\ (stack # <<>> /\ entitySequence' # entitySequence) =>
             /\ ~Exists(entitySequence)
             /\ entities' = Append(entities, entitySequence)
             /\ HoldsIn(componentKeys', components', entitySequence,
                        views[stack[Len(stack)].id])
       /\ (Len(stack') < Len(stack) /\ lastOp'.op = "each") =>
             LET m == MatchingIn(componentKeys', components', entities',
                                 lastOp'.types)
             IN  /\ lastOp'.ret = "done" => lastOp'.visited = m
                 /\ lastOp'.ret = "stopped" =>
                       lastOp'.visited = SubSeq(m, 1, Len(lastOp'.visited))
                 /\ (lastOp'.visited # <<>> /\ Len(entities') - lastOp'.calls = 1) =>
                       Len(entities') = LoopLimit + 2
      ]_vars

\* C17: destroying, inside the callback, the entity being visited or one not
\* yet visited raises no error, in destroy or in each(); the callback is only
\* ever called with an entity that is live and holds every type at that
\* moment (a destroyed entity is not passed), and a call that runs to its end
\* has visited every matching entity that is still live.
C17_DestroyInsideEach ==
    [][/\ lastOp'.op \in {"destroy", "each"} => ~lastOp'.threw
       /\ (/\ stack # <<>>
           /\ Len(stack') = Len(stack)
           /\ Len(stack'[Len(stack)].visited) > Len(stack[Len(stack)].visited)) =>
             LET f == stack'[Len(stack)]
             IN  /\ Exists(f.visited[Len(f.visited)])
                 /\ Holds(f.visited[Len(f.visited)], views[f.id])
       /\ (Len(stack') < Len(stack) /\ lastOp'.ret = "done") =>
             \A e \in Range(entities') :
                 HoldsIn(componentKeys', components', e, lastOp'.types) =>
                     e \in Range(lastOp'.visited)
      ]_vars

\* The callback has destroyed the entity it was called with, and the entity
\* that followed it in the live set has been visited in the same call.
C17_Witness ==
    /\ stack # <<>>
    /\ lastOp.op = "destroy"
    /\ ~Exists(lastOp.entity)
    /\ lastOp.freed # <<>>
    /\ Len(stack[Len(stack)].visited) = 2
    /\ stack[Len(stack)].visited[1] = lastOp.entity
    /\ Exists(stack[Len(stack)].visited[2])

\* C18: the components are looked up when an entity is reached: after
\* callbacks that remove a requested component from an entity not yet
\* visited, or emplace one on it, no call throws, and a call that runs to its
\* end has visited, of the entities still live, exactly those that hold every
\* requested type, in the order of the live set.
C18_LazyLookup ==
    [][/\ lastOp'.op \in {"emplace", "remove", "each"} => ~lastOp'.threw
       /\ (Len(stack') < Len(stack) /\ lastOp'.ret = "done") =>
             SelectSeq(lastOp'.visited, LAMBDA e : SetHas(entities', e)) =
                 MatchingIn(componentKeys', components', entities', lastOp'.types)
      ]_vars

\* The callback has emplaced the missing component of the View on an entity
\* not yet visited, and that entity has been visited in the same call.
C18_Witness ==
    /\ stack # <<>>
    /\ lastOp.op = "emplace"
    /\ ~lastOp.threw
    /\ lastOp.prev = Undefined
    /\ TypeOf(lastOp.comps[1]) \in Range(views[stack[Len(stack)].id])
    /\ Len(stack[Len(stack)].visited) = 2
    /\ stack[Len(stack)].visited[2] = lastOp.entity

\* The components of type t attached to entity e, over all tables.
Attached(comps, e, t) ==
    {c \in Instances \cup OtherInstances :
        TypeOf(c) = t /\ \E k \in AllKeys : comps[k][e] = c}

\* C19: emplace(e, x) on a live entity overwrites whatever component of x's
\* type e held: afterwards get(e,T) returns x, e holds x and no other
\* component of type T, and the slots of the other types and entities are as
\* they were.
C19_EmplaceOverwrites ==
    [][(lastOp'.op = "emplace" /\ Exists(lastOp'.entity)) =>
          LET e == lastOp'.entity
              x == lastOp'.comps[1]
          IN  /\ ~lastOp'.threw
              /\ lastOp'.prev = components[TypeOf(x)][e]
              /\ GetIn(componentKeys', components', e, TypeOf(x)) = x
              /\ Attached(components', e, TypeOf(x)) = {x}
              /\ \A t \in AllKeys, d \in AllIds :
                    (t # TypeOf(x) \/ d # e) => components'[t][d] = components[t][d]
      ]_vars

\* emplace has replaced another instance of the same class.
C19_Witness ==
    /\ lastOp.op = "emplace"
    /\ lastOp.prev \in Instances
    /\ lastOp.prev # lastOp.comps[1]
    /\ GetValue(lastOp.entity, TypeOf(lastOp.comps[1])) = lastOp.comps[1]

\* C20: remove(e,T) invokes no free() hook: it returns the instance that was
\* stored and leaves it in no slot of e. The hooks that destroy and clear
\* invoke are those of components attached, at the call, to the destroyed
\* entity or to a live entity, and no other operation invokes a hook: the
\* hook of an instance handed back by remove is not invoked by the World
\* while no entity holds that instance.
C20_RemoveHandsBack ==
    [][/\ (lastOp'.op = "remove" /\ ~lastOp'.threw) =>
             /\ lastOp'.freed = <<>>
             /\ lastOp'.ret = components[lastOp'.type][lastOp'.entity]
             /\ \A k \in AllKeys :
                   lastOp'.ret # Undefined =>
                       components'[k][lastOp'.entity] # lastOp'.ret
       /\ lastOp'.op = "destroy" =>
             \A c \in Range(lastOp'.freed) :
                 \E k \in AllKeys : components[k][lastOp'.entity] = c
       /\ lastOp'.op = "clear" =>
             \A c \in Range(lastOp'.freed) :
                 \E k \in AllKeys, e \in Range(entities) : components[k][e] = c
       /\ lastOp'.op \notin {"destroy", "clear"} => lastOp'.freed = <<>>
      ]_vars

\* remove has handed back an instance with a free() hook, taken from an entity
\* that still holds another component with a hook.
C20_Witness ==
    /\ lastOp.op = "remove"
    /\ lastOp.ret \in Instances
    /\ HasFree(lastOp.ret)
    /\ lastOp.freed = <<>>
    /\ Hooked(lastOp.entity) # {}
    /\ lastOp.ret \notin Hooked(lastOp.entity)

\* C21: Tag.for is memoized by name.toString(): the types user code holds for
\* two names with the same string are the identical type, an entity created
\* with one of them is found by has() with the other, and the types held for
\* names with different strings have different type identifiers.
C21_TagMemoized ==
    \A n1 \in TagNameArgs, n2 \in TagNameArgs :
        (tags.held[n1] # Undefined /\ tags.held[n2] # Undefined) =>
            IF NameString(n1) = NameString(n2)
            THEN /\ tags.held[n1] = tags.held[n2]
                 /\ \A e \in Ids :
                       components[TypeOf(tags.held[n1])][e] = tags.held[n1] =>
                           HasValue(e, OwnName(tags.held[n2]))
            ELSE TypeOf(tags.held[n1]) # TypeOf(tags.held[n2])

\* C22: create(c1..cn) never throws and leaves the World as create() followed
\* by emplace(e, c1) .. emplace(e, cn) leaves it: the counter is one greater,
\* e is live, e holds for every given type the last argument of that type,
\* a table exists for every given type, the tables that existed keep their
\* order, and every other slot is as it was.
C22_CreateIsEmplaces ==
    [][lastOp'.op = "create" =>
          LET e == lastOp'.entity
              cs == lastOp'.comps
          IN  /\ ~lastOp'.threw
              /\ e = entitySequence
              /\ entitySequence' = entitySequence + 1
              /\ entities' = SetAdd(entities, e)
              /\ \A i \in 1..Len(cs) :
                    HasIn(componentKeys', components', e, TypeOf(cs[i]))
              /\ \A t \in AllKeys, d \in AllIds :
                    components'[t][d] =
                        IF d = e /\ LastOfType(cs, t) # Undefined
                        THEN LastOfType(cs, t)
                        ELSE components[t][d]
              /\ SubSeq(componentKeys', 1, Len(componentKeys)) = componentKeys
              /\ Range(componentKeys') =
                    Range(componentKeys) \cup {TypeOf(cs[i]) : i \in 1..Len(cs)}
              /\ views' = views
      ]_vars

\* create(a1, a2): two components of the same type, the later one stored.
C22_Witness ==
    /\ lastOp.op = "create"
    /\ lastOp.comps = <<"a1", "a2">>
    /\ GetValue(lastOp.entity, "A") = "a2"

\* C23: destroy(e) on an entity that is not live does not throw and changes
\* nothing: the live set, size(), the counter, the tables and the views are
\* as before, and no free() hook is invoked.
C23_DestroyDeadNoOp ==
    [][(lastOp'.op = "destroy" /\ ~Exists(lastOp'.entity)) =>
          /\ ~lastOp'.threw
          /\ lastOp'.freed = <<>>
          /\ Len(entities') = Len(entities)
          /\ world' = world]_vars

\* destroy of an identifier that was never created or inserted, in a World
\* that holds components.
C23_Witness ==
    /\ lastOp.op = "destroy"
    /\ ~lastOp.threw
    /\ lastOp.entity > entitySequence
    /\ \E e \in Ids, t \in AllKeys : HasValue(e, t)

\* C24: an enumeration of all() during which the World is not mutated yields
\* every live entity exactly once and nothing else, size() entities in all;
\* and size() is always the number of entities for which exists() is true.
C24_AllYieldsLive ==
    /\ Size = Cardinality({e \in AllIds : Exists(e)})
    /\ lastOp.op = "all" =>
          /\ Range(lastOp.visited) = {e \in AllIds : Exists(e)}
          /\ Cardinality(Range(lastOp.visited)) = Len(lastOp.visited)
          /\ Len(lastOp.visited) = Size

\* all() has yielded the two live entities, in the order they were added.
C24_Witness ==
    /\ lastOp.op = "all"
    /\ lastOp.visited = <<1, 0>>
    /\ Size = 2

\* C25: no operation decreases the sequence counter, and create() returns the
\* value of the counter and leaves the counter greater than it: an identifier
\* returned by create() is below the counter from then on, so no later
\* create() returns it, whatever was destroyed or cleared in between.
C25_SequenceMonotone ==
    [][/\ entitySequence' >= entitySequence
       /\ (lastOp.op = "none" /\ lastOp'.op = "create") =>
             /\ lastOp'.entity = entitySequence
             /\ entitySequence' > lastOp'.entity
       /\ lastOp'.op \in {"destroy", "clear", "emplace", "remove", "view"} =>
             entitySequence' = entitySequence
      ]_vars

\* create() has returned 1 in a World whose entity 0, created before, has
\* been destroyed.
C25_Witness ==
    /\ lastOp.op = "create"
    /\ lastOp.entity = 1
    /\ entities = <<1>>
    /\ stack = <<>>

\* C26: clear() destroys exactly the entities of a snapshot of the live set
\* taken when it begins, in the order of the snapshot, also when a free() hook
\* invoked during it creates or inserts entities.
C26_ClearDestroysSnapshot ==
    lastOp.op = "clear" => lastOp.visited = lastOp.start

\* C26, as the code has it: clear() iterates the live set itself, so it
\* destroys every entity live when it begins and every entity a free() hook
\* creates or inserts while it runs; when it returns no entity is live and no
\* table holds a component.
C26_ClearDestroysAll ==
    lastOp.op = "clear" =>
        /\ Range(lastOp.start) \subseteq Range(lastOp.visited)
        /\ entities = <<>>
        /\ \A t \in AllKeys, e \in AllIds : components[t][e] = Undefined

\* clear() has returned after a free() hook it invoked added an entity, which
\* it destroyed as well.
C26_Witness ==
    /\ lastOp.op = "clear"
    /\ lastOp.freed # <<>>
    /\ lastOp.calls > 0
    /\ Len(lastOp.visited) > Len(lastOp.start)

\* C27: while a free() hook of a component of entity e runs inside
\* destroy(e), the component is still in its table, so get(e, T) returns it,
\* and e has left the live set, so exists(e) is false as long as the hooks
\* of this destroy have not put it back.
C27_HookSeesComponent ==
    [][InHook' =>
          LET f == stack'[Len(stack')]
              key == componentKeys'[f.key]
          IN  /\ components'[key][f.entity] = f.freed[Len(f.freed)]
              /\ f.calls = 0 => ~SetHas(entities', f.entity)
              /\ (lastOp.op = "none" /\ lastOp'.op = "exists"
                     /\ lastOp'.entity = f.entity /\ f.calls = 0) =>
                    lastOp'.ret = "false"
              /\ (lastOp.op = "none" /\ lastOp'.op = "get"
                     /\ lastOp'.entity = f.entity /\ lastOp'.type = key) =>
                    lastOp'.ret = f.freed[Len(f.freed)]
      ]_vars

\* Inside the free() hook of b1, the second component of the entity being
\* destroyed, exists() of that entity has returned false.
C27_Witness ==
    /\ InHook
    /\ stack[Len(stack)].freed = <<"a1", "b1">>
    /\ lastOp.op = "exists"
    /\ lastOp.entity = stack[Len(stack)].entity
    /\ lastOp.ret = "false"

\* C28: a call of each() whose callback adds a bounded number of entities
\* returns, and a call whose callback creates a matching entity on every
\* invocation does not return once the callback has been invoked.
C28_EachTerminates ==
    /\ (stack # <<>> /\ stack[1].callback = "user") ~> (stack = <<>>)
    /\ [][(/\ stack # <<>>
           /\ stack[1].callback = "grow"
           /\ stack[1].visited # <<>>) => stack' # <<>>]_vars

\* The reverse of a tuple.
Reversed(s) == [i \in 1..Len(s) |-> s[Len(s) + 1 - i]]

\* C29: each() on the view of a tuple of types and on the view of the
\* reversed tuple pass the same entities to the callback, in the same order:
\* the live entities that hold every type, in the order of the live set; and
\* the i-th component argument of every invocation is the entity's component
\* of the i-th type requested.
C29_ArgumentOrder ==
    [][lastOp'.op = "viewEach" =>
          LET types == lastOp'.types
              visited == lastOp'.visited
          IN  /\ ~lastOp'.threw
              /\ visited = MatchingIn(componentKeys', components', entities', types)
              /\ visited = MatchingIn(componentKeys', components', entities',
                                      Reversed(types))
              /\ \A k \in 1..Len(visited) :
                    /\ Len(lastOp'.args[k]) = Len(types)
                    /\ \A i \in 1..Len(types) :
                          lastOp'.args[k][i] =
                             GetIn(componentKeys', components', visited[k], types[i])
      ]_vars

\* C30: an each() call made from inside a callback, and the call it is made
\* from, each visit their own matching entities: whenever a call ends, only
\* its own activation goes and the calls around it stand as they were; a call
\* that runs to its end has visited every live entity holding its types, in
\* the order of the live set, whatever calls were made or stopped inside its
\* callback, and a call stopped by its callback has visited a prefix of them.
C30_Reentrant ==
    [][Len(stack') < Len(stack) =>
          LET f == stack[Len(stack)]
              m == MatchingIn(componentKeys, components, entities, views[f.id])
          IN  /\ stack' = Pop(stack)
              /\ lastOp'.op = "each"
              /\ lastOp'.type = f.id
              /\ lastOp'.visited = f.visited
              /\ lastOp'.ret = "done" => f.visited = m
              /\ lastOp'.ret = "stopped" =>
                    /\ f.visited # <<>>
                    /\ f.visited = SubSeq(m, 1, Len(f.visited))
      ]_vars

\* The inner call, made on the same View from the callback of the outer call
\* for its first entity, was stopped at its first entity, and the outer call
\* has gone on to its second entity.
C30_Witness ==
    /\ Len(stack) = 1
    /\ stack[1].visited = <<0, 1>>
    /\ stack[1].pc = "callback"
    /\ lastOp.op = "each"
    /\ lastOp.type = stack[1].id
    /\ lastOp.ret = "stopped"
    /\ lastOp.visited = <<0>>

\* C31: emplace(e, x) of an instance x of class T on a live entity stores x
\* under the identifier get, has and remove derive from T (the name of the
\* class): right afterwards has(e, T) is true and get(e, T) returns x, also
\* for an instance that carries a `name` field of its own.
C31_EmplaceUnderClass ==
    [][(/\ lastOp.op = "none"
        /\ lastOp'.op = "emplace"
        /\ ~lastOp'.threw
        /\ lastOp'.comps[1] \in NamedInstances) =>
          LET x == lastOp'.comps[1]
              T == ConstructorName(x)
          IN  /\ HasIn(componentKeys', components', lastOp'.entity, T)
              /\ GetIn(componentKeys', components', lastOp'.entity, T) = x
      ]_vars

\* C32: within one each() call no entity is passed to the callback more than
\* once, whatever the callback does to the World.
C32_VisitedOnce ==
    \A i \in 1..Len(stack) :
        Cardinality(Range(stack[i].visited)) = Len(stack[i].visited)

\* C32, as the code has it: the callback is invoked once per membership of
\* the live set. The entity passed is the next entry ahead of the iterator,
\* and an entry the iterator has gone past stays behind it for as long as it
\* stays in the live set; an entity is passed again only after it was taken
\* out of the live set and inserted again, which puts it at the end.
C32_VisitedOncePerMembership ==
    [][\A i \in 1..Len(stack) :
          i <= Len(stack') =>
             /\ Len(stack'[i].visited) > Len(stack[i].visited) =>
                   /\ stack'[i].cursor > stack[i].cursor
                   /\ stack'[i].visited =
                         Append(stack[i].visited, entities[stack'[i].cursor])
             /\ \A e \in AllIds :
                   (/\ SetHas(entities, e)
                    /\ SetHas(entities', e)
                    /\ Position(entities, e) <= stack[i].cursor) =>
                       Position(entities', e) <= stack'[i].cursor
      ]_vars

\* The callback destroyed entity 0 and inserted it again, and the same call
\* has passed it a second time, after entity 1.
C32_Witness ==
    /\ Len(stack) = 1
    /\ stack[1].visited = <<0, 1, 0>>
    /\ entities = <<1, 0>>

\* C33: emplace, create and insert invoke no free() hook, also when they
\* replace a component that has one; and a destroy invokes no hook of a
\* component that is no longer in its slot of the destroyed entity, a clear
\* none of a component that is in its slot of no live entity.
C33_ReplacedNeverFreed ==
    [][/\ lastOp'.op \in {"emplace", "create", "insert"} => lastOp'.freed = <<>>
       /\ lastOp'.op = "destroy" =>
             \A c \in Instances :
                 components[TypeOf(c)][lastOp'.entity] # c =>
                     c \notin Range(lastOp'.freed)
       /\ lastOp'.op = "clear" =>
             \A c \in Instances :
                 (\A e \in Range(entities) : components[TypeOf(c)][e] # c) =>
                     c \notin Range(lastOp'.freed)
      ]_vars

\* emplace has replaced a1, which has a free() hook, by a2 on an entity that
\* holds b1 as well, and no hook was invoked.
C33_Witness ==
    /\ lastOp.op = "emplace"
    /\ lastOp.prev = "a1"
    /\ lastOp.comps = <<"a2">>
    /\ lastOp.freed = <<>>
    /\ GetValue(lastOp.entity, "A") = "a2"
    /\ GetValue(lastOp.entity, "B") = "b1"

\* C34: emplace(e, x) and remove(e, T) change at most the slot of e in the
\* table of the type: the live set, size(), the sequence counter and the
\* component of every other pair of entity and type are as before the call.
C34_SingleSlot ==
    [][(lastOp.op = "none" /\ lastOp'.op \in {"emplace", "remove"}) =>
          LET type == IF lastOp'.op = "emplace" THEN TypeOf(lastOp'.comps[1])
                      ELSE lastOp'.type
          IN  /\ entities' = entities
              /\ Len(entities') = Len(entities)
              /\ entitySequence' = entitySequence
              /\ \A t \in AllKeys, e \in AllIds :
                    (t # type \/ e # lastOp'.entity) =>
                        components'[t][e] = components[t][e]
      ]_vars

\* remove has taken a1 from an entity that still holds b1, while the other
\* entity holds a component of type A.
C34_Witness ==
    /\ lastOp.op = "remove"
    /\ lastOp.ret = "a1"
    /\ GetValue(lastOp.entity, "A") = Undefined
    /\ GetValue(lastOp.entity, "B") = "b1"
    /\ \E f \in Ids : f # lastOp.entity /\ GetValue(f, "A") # Undefined

\* C35: destroy(e) leaves every other entity as it was: for every f other
\* than e, exists(f) and get(f, T) for every type T are the same before and
\* after, the other entities keep their order in the live set, the hooks
\* invoked are those of components attached to e, and the sequence counter is
\* unchanged.
C35_DestroyLeavesOthers ==
    [][(lastOp.op = "none" /\ lastOp'.op = "destroy") =>
          LET e == lastOp'.entity
          IN  /\ entities' = SetDelete(entities, e)
              /\ entitySequence' = entitySequence
              /\ \A f \in AllIds \ {e} :
                    /\ SetHas(entities', f) = SetHas(entities, f)
                    /\ \A t \in AllKeys :
                          GetIn(componentKeys', components', f, t) =
                             GetIn(componentKeys, components, f, t)
              /\ \A c \in Range(lastOp'.freed) :
                    \E t \in AllKeys : components[t][e] = c
      ]_vars

\* destroy has invoked the hook of a1, attached to the destroyed entity, and
\* not the hook of b1, which the other entity, still live, holds.
C35_Witness ==
    /\ lastOp.op = "destroy"
    /\ lastOp.freed = <<"a1">>
    /\ \E f \in Ids :
          /\ f # lastOp.entity
          /\ Exists(f)
          /\ GetValue(f, "B") = "b1"

\* C36: no operation removes or replaces a table or a cached View: the keys
\* of the tables only grow, every cached View stays cached with its types,
\* and the types of every cached View have their tables; so each() on a View
\* cached before a clear() does not throw and, run to its end, passes exactly
\* the live entities holding its types, those created after the clear().
C36_TablesPersist ==
    [][/\ Len(componentKeys') >= Len(componentKeys)
       /\ SubSeq(componentKeys', 1, Len(componentKeys)) = componentKeys
       /\ \A id \in DOMAIN views : id \in DOMAIN views' /\ views'[id] = views[id]
       /\ \A id \in DOMAIN views' :
             Range(views'[id]) \subseteq Range(componentKeys')
       /\ (Len(stack') < Len(stack) /\ lastOp'.op = "each") =>
             /\ ~lastOp'.threw
             /\ lastOp'.ret = "done" =>
                   lastOp'.visited =
                      MatchingIn(componentKeys', components', entities', lastOp'.types)
      ]_vars

\* The View of (A, B) was cached in the fresh World; entity 0, created after
\* that, is gone, which only clear() does; and each() on the View has passed
\* entity 1, created after the clear().
C36_Witness ==
    /\ lastOp.op = "each"
    /\ lastOp.types = <<"A", "B">>
    /\ lastOp.ret = "done"
    /\ lastOp.visited = <<1>>
    /\ entities = <<1>>

\* C37: view(...types) changes nothing that exists, has or get can see: the
\* live set, size(), the sequence counter and the results of exists(e),
\* has(e, T) and get(e, T) for every entity and type are the same before and
\* after the call, also when it registers empty tables for types never seen.
C37_ViewNoEffect ==
    [][(lastOp.op = "none" /\ lastOp'.op = "view") =>
          /\ ~lastOp'.threw
          /\ entities' = entities
          /\ Len(entities') = Len(entities)
          /\ entitySequence' = entitySequence
          /\ \A e \in AllIds, t \in AllKeys :
                /\ HasIn(componentKeys', components', e, t) =
                      HasIn(componentKeys, components, e, t)
                /\ GetIn(componentKeys', components', e, t) =
                      GetIn(componentKeys, components, e, t)
      ]_vars

\* view(AB) was called in a World where nothing was ever destroyed and no
\* entity holds an AB: the table of AB exists through view alone, and the
\* entities hold their components of A and B as before.
C37_Witness ==
    /\ lastOp.op = "view"
    /\ lastOp.types = <<"AB">>
    /\ "AB" \in Range(componentKeys)
    /\ Len(entities) = entitySequence
    /\ \A e \in AllIds : components["AB"][e] = Undefined
    /\ \E e \in Ids : GetValue(e, "A") = "a1" /\ GetValue(e, "B") = "b1"

====
